---- MODULE Spec2Model ----
(***************************************************************************)
(* Verification model of the AV Safeguard analysis engine                  *)
(* (src/src/utils/calculations.ts) and of the validating analyzeProject    *)
(* variant (src/src/pages/Index.tsx, lines 335-493).                       *)
(*                                                                         *)
(* Numbers.  The program computes in IEEE doubles; the model computes in   *)
(* integers:                                                               *)
(*   - a length in inches is carried in thousandths of an inch (In(42) is  *)
(*     42 in); distances from the screen and room dimensions are in feet;  *)
(*   - an angle atan(x / d) * 180 / PI is carried as the pair              *)
(*     [num |-> x in thousandths of an inch, den |-> d in inches], and a   *)
(*     comparison of the angle with a threshold of t degrees is the        *)
(*     comparison of x / d with tan(t), tan being increasing on [0, 90);   *)
(*     TanE6 holds 10^6 * tan(t) for the thresholds of the program;        *)
(*   - the irrational screen factors 1 / sqrt(r^2 + 1) and r / sqrt(r^2+1) *)
(*     are carried to six decimals.                                        *)
(* The digits of the angles printed inside the notes (toFixed(1) of an     *)
(* arctangent) and the two reported angles of a RowAnalysis are not        *)
(* carried: no decision of the program reads them.                         *)
(***************************************************************************)
EXTENDS Integers, Sequences, FiniteSets, TLC

\* config and result are the ProjectConfig handed to the engine and the
\* AnalysisResult it returned; args and ret are the arguments and the return
\* value of a function that is called on its own; pc is "ready" before the
\* call and "done" after it.
VARIABLES config, result, args, ret, pc

vars == <<config, result, args, ret, pc>>

\* ------------------------------------------------------------------ bounds
MaxRows == 5

\* ------------------------------------------------------------- arithmetic
In(x) == x * 1000

Abs(x) == IF x < 0 THEN -x ELSE x

Min(a, b) == IF a <= b THEN a ELSE b

Max(a, b) == IF a >= b THEN a ELSE b

\* "number | null" and "SeatingRow | null": <<>> is null, <<v>> is v.
Null == <<>>

Some(v) == <<v>>

\* 10^6 * tan(t / 10 degrees), t in tenths of a degree.
TanE6(t) ==
  CASE t = 5   -> 8727
    [] t = 10  -> 17455
    [] t = 20  -> 34921
    [] t = 30  -> 52408
    [] t = 120 -> 212557
    [] t = 150 -> 267949
    [] t = 180 -> 324920
    [] t = 350 -> 700208
    [] t = 400 -> 839100
    [] t = 450 -> 1000000

\* Math.atan(num / den) * (180 / Math.PI) as a pair; num in thousandths.
Angle(num, den) == [num |-> Abs(num), den |-> den]

\* angle < t/10 degrees, angle <= t/10 degrees
AngleLt(a, t) == a.num * 1000 < TanE6(t) * a.den

AngleLe(a, t) == a.num * 1000 <= TanE6(t) * a.den

\* ------------------------------------------------ calculations.ts: tables
WallConstructions == {"drywall", "treated-drywall", "mlv-drywall", "hybrid", "concrete"}

ContentStandards == {"SDR", "HDR"}

MaskingConfigs == {"fixed-240", "motorized", "16:9-no-masking"}

AspectRatios == {"16:9", "2.35:1", "2.40:1"}

\* WALL_DAMPING_FACTORS, in hundredths.
WALL_DAMPING_FACTORS(w) ==
  CASE w = "drywall"         -> 50
    [] w = "treated-drywall" -> 70
    [] w = "mlv-drywall"     -> 75
    [] w = "hybrid"          -> 85
    [] w = "concrete"        -> 100

\* SIGHTLINE_TOLERANCE[masking].label
MaskingLabel(m) ==
  CASE m = "fixed-240"       -> "Fixed 2.40:1 Masking"
    [] m = "motorized"       -> "Motorized Masking (Pro)"
    [] m = "16:9-no-masking" -> "16:9 (No Masking)"

\* WALL_ABSORPTION_COEFFICIENTS, in hundredths.
WALL_ABSORPTION_COEFFICIENTS(w) ==
  CASE w = "drywall"         -> 10
    [] w = "treated-drywall" -> 15
    [] w = "mlv-drywall"     -> 12
    [] w = "hybrid"          -> 5
    [] w = "concrete"        -> 2

\* -------------------------------- calculations.ts: treatment, RT60, modes
\* A frequency n * SPEED_OF_SOUND / (2 * dimension) is the fraction
\* [num, den] in Hz; the comparisons below are cross-multiplied.
FracLt(f, k) == f.num < k * f.den

FracLe(f, k) == f.num <= k * f.den

\* Math.round of a fraction >= 0 scaled by 10^e (round half up).
RoundScaled(num, den, scale) == (2 * scale * num + den) \div (2 * den)

getPlacementStrategy(frequency) ==
  IF FracLt(frequency, 50) THEN "Tri-Corner"
  ELSE IF FracLe(frequency, 100) THEN "Front/Side Walls"
  ELSE "Rear Wall / Ceiling"

\* description is its text and, for the tuned absorber, the Math.round of
\* the frequency it prints (0 where it prints none).
getTreatmentPrescription(frequency) ==
  IF FracLt(frequency, 40)
  THEN [frequency |-> frequency, type |-> "diaphragmatic",
        description |-> [text |-> "Diaphragmatic/Membrane Absorber",
                         tunedTo |-> RoundScaled(frequency.num, frequency.den, 1)],
        depth |-> "6-12 inches", placement |-> getPlacementStrategy(frequency)]
  ELSE IF FracLe(frequency, 80)
  THEN [frequency |-> frequency, type |-> "hybrid-bass-trap",
        description |-> [text |-> "Hybrid Bass Trap at pressure points", tunedTo |-> 0],
        depth |-> "12-16 inches", placement |-> getPlacementStrategy(frequency)]
  ELSE [frequency |-> frequency, type |-> "broadband-porous",
        description |-> [text |-> "Broadband Porous Absorber", tunedTo |-> 0],
        depth |-> "4-6 inches", placement |-> getPlacementStrategy(frequency)]

\* calculateRT60 deciding the status on the rounded value it returns.
calculateRT60StatusMutant(roomLength, roomWidth, roomHeight, wallConstruction) ==
  LET volume == roomLength * roomWidth * roomHeight
      floorCeiling == 2 * roomLength * roomWidth
      walls == 2 * (roomLength * roomHeight + roomWidth * roomHeight)
      totalSurface == floorCeiling + walls
      totalAbsorption == walls * WALL_ABSORPTION_COEFFICIENTS(wallConstruction) * 10
                           + roomLength * roomWidth * 225
      deficit == 980 * volume - 9 * totalAbsorption
      coverageRequired ==
        IF Abs(deficit) >= 100 * 90 * totalSurface THEN 100
        ELSE RoundScaled(Abs(deficit), 90 * totalSurface, 1)
      rounded == RoundScaled(49 * volume, totalAbsorption, 100)
      status == IF rounded <= 55 THEN "optimal"
                ELSE IF rounded <= 75 THEN "acceptable"
                ELSE "needs-treatment"
  IN  [untreatedRT60 |-> rounded,
       targetRT60 |-> 45,
       coverageRequired |-> coverageRequired,
       status |-> status]

\* calculateRT60 without Math.abs: a negative deficit is clamped to 0.
calculateRT60SignedMutant(roomLength, roomWidth, roomHeight, wallConstruction) ==
  LET volume == roomLength * roomWidth * roomHeight
      floorCeiling == 2 * roomLength * roomWidth
      walls == 2 * (roomLength * roomHeight + roomWidth * roomHeight)
      totalSurface == floorCeiling + walls
      totalAbsorption == walls * WALL_ABSORPTION_COEFFICIENTS(wallConstruction) * 10
                           + roomLength * roomWidth * 225
      deficit == 980 * volume - 9 * totalAbsorption
      coverageRequired ==
        IF deficit <= 0 THEN 0
        ELSE IF deficit >= 100 * 90 * totalSurface THEN 100
        ELSE RoundScaled(deficit, 90 * totalSurface, 1)
      status == IF 4900 * volume <= 55 * totalAbsorption THEN "optimal"
                ELSE IF 4900 * volume <= 75 * totalAbsorption THEN "acceptable"
                ELSE "needs-treatment"
  IN  [untreatedRT60 |-> RoundScaled(49 * volume, totalAbsorption, 100),
       targetRT60 |-> 45,
       coverageRequired |-> coverageRequired,
       status |-> status]

\* Room dimensions in feet.  totalAbsorption = totalSurface * avgAlpha is
\* walls * wallAlpha + L W (0.10 + 0.05 + 0.3 * 0.25), carried in
\* thousandths of a sabin; untreatedRT60 = 0.049 V / totalAbsorption and
\* coverageRequired = |0.049 V / 0.45 - totalAbsorption| / totalSurface * 100
\* = |980 V - 9 absorption| / (90 totalSurface).  untreatedRT60 is returned
\* in hundredths of a second, targetRT60 likewise.
calculateRT60(roomLength, roomWidth, roomHeight, wallConstruction) ==
  LET volume == roomLength * roomWidth * roomHeight
      floorCeiling == 2 * roomLength * roomWidth
      walls == 2 * (roomLength * roomHeight + roomWidth * roomHeight)
      totalSurface == floorCeiling + walls
      totalAbsorption == walls * WALL_ABSORPTION_COEFFICIENTS(wallConstruction) * 10
                           + roomLength * roomWidth * 225
      deficit == 980 * volume - 9 * totalAbsorption
      coverageRequired ==
        IF Abs(deficit) >= 100 * 90 * totalSurface THEN 100
        ELSE RoundScaled(Abs(deficit), 90 * totalSurface, 1)
      status == IF 4900 * volume <= 55 * totalAbsorption THEN "optimal"
                ELSE IF 4900 * volume <= 75 * totalAbsorption THEN "acceptable"
                ELSE "needs-treatment"
  IN  [untreatedRT60 |-> RoundScaled(49 * volume, totalAbsorption, 100),
       targetRT60 |-> 45,
       coverageRequired |-> coverageRequired,
       status |-> status]

\* A length in feet as calculateRoomModes carries it, in hundredths of a
\* foot, so that a room of 14.07 ft can be told from one of 14 ft.
Ft(x) == x * 100

\* The mode loop with the 300 Hz bound exclusive.
AxialModeMutant(axis, n, dimension, wallConstruction) ==
  LET freq == [num |-> n * 112500, den |-> 2 * dimension]
  IN  IF FracLt(freq, 300)
      THEN <<[frequency |-> RoundScaled(freq.num, freq.den, 10),
              type |-> "axial",
              axis |-> [name |-> axis, order |-> n],
              intensity |-> [num |-> WALL_DAMPING_FACTORS(wallConstruction), den |-> 100 * n],
              isBassLeakage |-> (wallConstruction = "drywall" /\ FracLt(freq, 80)),
              treatment |-> getTreatmentPrescription(freq)]>>
      ELSE <<>>

\* The mode loop prescribing the treatment for the rounded frequency it
\* reports instead of the frequency it computed.
AxialModeRoundedMutant(axis, n, dimension, wallConstruction) ==
  LET freq == [num |-> n * 112500, den |-> 2 * dimension]
      reported == [num |-> RoundScaled(freq.num, freq.den, 10), den |-> 10]
  IN  IF FracLe(freq, 300)
      THEN <<[frequency |-> RoundScaled(freq.num, freq.den, 10),
              type |-> "axial",
              axis |-> [name |-> axis, order |-> n],
              intensity |-> [num |-> WALL_DAMPING_FACTORS(wallConstruction), den |-> 100 * n],
              isBassLeakage |-> (wallConstruction = "drywall" /\ FracLt(freq, 80)),
              treatment |-> getTreatmentPrescription(reported)]>>
      ELSE <<>>

\* One mode of calculateRoomModes, or <<>> when it is above 300 Hz; the
\* dimension is in hundredths of a foot, so freq = n * 1125 / (2 d / 100).
\* frequency is Math.round(f * 10) / 10 in tenths of a Hz; intensity is
\* dampingFactor * (1 / n) as a fraction of hundredths.  isBassLeakage and
\* treatment are computed from freq, the frequency before rounding.
AxialMode(axis, n, dimension, wallConstruction) ==
  LET freq == [num |-> n * 112500, den |-> 2 * dimension]
  IN  IF FracLe(freq, 300)
      THEN <<[frequency |-> RoundScaled(freq.num, freq.den, 10),
              type |-> "axial",
              axis |-> [name |-> axis, order |-> n],
              intensity |-> [num |-> WALL_DAMPING_FACTORS(wallConstruction), den |-> 100 * n],
              isBassLeakage |-> (wallConstruction = "drywall" /\ FracLt(freq, 80)),
              treatment |-> getTreatmentPrescription(freq)]>>
      ELSE <<>>

\* modes.sort((a, b) => a.frequency - b.frequency), a stable sort
RECURSIVE InsertMode(_, _)
InsertMode(m, sorted) ==
  IF sorted = <<>> THEN <<m>>
  ELSE IF sorted[Len(sorted)].frequency <= m.frequency
       THEN Append(sorted, m)
       ELSE Append(InsertMode(m, SubSeq(sorted, 1, Len(sorted) - 1)), sorted[Len(sorted)])

RECURSIVE SortByFrequency(_)
SortByFrequency(modes) ==
  IF modes = <<>> THEN <<>>
  ELSE InsertMode(modes[Len(modes)], SortByFrequency(SubSeq(modes, 1, Len(modes) - 1)))

RECURSIVE ModesFrom(_, _, _, _, _)
ModesFrom(n, roomLength, roomWidth, roomHeight, wallConstruction) ==
  IF n > 3 THEN <<>>
  ELSE AxialMode("Length", n, roomLength, wallConstruction)
       \o AxialMode("Width", n, roomWidth, wallConstruction)
       \o AxialMode("Height", n, roomHeight, wallConstruction)
       \o ModesFrom(n + 1, roomLength, roomWidth, roomHeight, wallConstruction)

calculateRoomModes(roomLength, roomWidth, roomHeight, wallConstruction) ==
  SortByFrequency(ModesFrom(1, roomLength, roomWidth, roomHeight, wallConstruction))

\* roomModes.filter(mode => mode.frequency <= 200).map(mode => mode.treatment)
\*   .filter((treatment, index, self) =>
\*      index === self.findIndex(t => t.type === treatment.type))
RECURSIVE FirstOfEachType(_, _)
FirstOfEachType(treatments, index) ==
  IF index > Len(treatments) THEN <<>>
  ELSE (IF \A j \in 1..(index - 1) : treatments[j].type # treatments[index].type
        THEN <<treatments[index]>>
        ELSE <<>>)
       \o FirstOfEachType(treatments, index + 1)

\* The prescription list without the 200 Hz filter.
TreatmentPrescriptionsOfMutant(roomModes) ==
  LET treatments == [i \in 1..Len(roomModes) |-> roomModes[i].treatment]
  IN  FirstOfEachType(treatments, 1)

TreatmentPrescriptionsOf(roomModes) ==
  LET bass == SelectSeq(roomModes, LAMBDA mode : mode.frequency <= 2000)
      treatments == [i \in 1..Len(bass) |-> bass[i].treatment]
  IN  FirstOfEachType(treatments, 1)

\* ---------------------------------------------- calculations.ts: geometry
\* 10^6 / sqrt(ratio^2 + 1) and 10^6 * ratio / sqrt(ratio^2 + 1)
HeightE6(aspectRatio) ==
  CASE aspectRatio = "16:9"   -> 490261
    [] aspectRatio = "2.35:1" -> 391555
    [] aspectRatio = "2.40:1" -> 384615

WidthE6(aspectRatio) ==
  CASE aspectRatio = "16:9"   -> 871576
    [] aspectRatio = "2.35:1" -> 920155
    [] aspectRatio = "2.40:1" -> 923077

\* diagonalInches in inches; width and height in thousandths of an inch.
getScreenDimensions(diagonalInches, aspectRatio) ==
  [width  |-> (diagonalInches * WidthE6(aspectRatio)) \div 1000,
   height |-> (diagonalInches * HeightE6(aspectRatio)) \div 1000]

\* total (the sum of the two arctangents) is read nowhere and is not carried.
calculateVerticalViewingAngle(screenHeight, screenBottomEdge, viewerEarHeight, distanceFromScreen) ==
  LET distanceInches == distanceFromScreen * 12
      screenTop == screenBottomEdge + screenHeight
  IN  [toTop    |-> Angle(screenTop - viewerEarHeight, distanceInches),
       toBottom |-> Angle(viewerEarHeight - screenBottomEdge, distanceInches)]

\* The result is halfAngle * 2; every reader divides it by 2 again, so the
\* model returns the half angle atan((width / 2) / distanceInches).
calculateHorizontalViewingAngle(screenWidthInches, distanceFromScreenFeet) ==
  LET distanceInches == distanceFromScreenFeet * 12
  IN  Angle(screenWidthInches, 2 * distanceInches)

\* The tier tables with the motorized and the fixed-ratio thresholds
\* exchanged.
SightlineTierSwappedMutant(maskingConfig, obstructionHeight, obstructionAngle) ==
  IF maskingConfig = "16:9-no-masking"
  THEN IF obstructionHeight <= 500 /\ AngleLt(obstructionAngle, 5)
       THEN [blocked |-> FALSE, status |-> "acceptable"]
       ELSE IF obstructionHeight <= In(2) /\ AngleLt(obstructionAngle, 10)
            THEN [blocked |-> TRUE, status |-> "warning"]
            ELSE [blocked |-> TRUE, status |-> "fail"]
  ELSE IF maskingConfig = "fixed-240"
  THEN IF AngleLt(obstructionAngle, 20) /\ obstructionHeight < In(6)
       THEN [blocked |-> FALSE, status |-> "acceptable"]
       ELSE IF AngleLt(obstructionAngle, 30) /\ obstructionHeight < In(8)
            THEN [blocked |-> TRUE, status |-> "warning"]
            ELSE [blocked |-> TRUE, status |-> "fail"]
  ELSE IF AngleLt(obstructionAngle, 10) /\ obstructionHeight < In(4)
       THEN [blocked |-> FALSE, status |-> "acceptable"]
       ELSE IF AngleLt(obstructionAngle, 20) /\ obstructionHeight < In(6)
            THEN [blocked |-> TRUE, status |-> "warning"]
            ELSE [blocked |-> TRUE, status |-> "fail"]

\* ------------------------------------------ calculations.ts: checkSightline
SightlineTierMutant(maskingConfig, obstructionHeight, obstructionAngle) ==
  IF maskingConfig = "16:9-no-masking"
  THEN IF obstructionHeight <= 500 /\ AngleLt(obstructionAngle, 5)
       THEN [blocked |-> FALSE, status |-> "acceptable"]
       ELSE IF obstructionHeight <= In(2) /\ AngleLt(obstructionAngle, 10)
            THEN [blocked |-> FALSE, status |-> "warning"]
            ELSE [blocked |-> TRUE, status |-> "fail"]
  ELSE IF maskingConfig = "motorized"
  THEN IF AngleLt(obstructionAngle, 20) /\ obstructionHeight < In(6)
       THEN [blocked |-> FALSE, status |-> "acceptable"]
       ELSE IF AngleLt(obstructionAngle, 30) /\ obstructionHeight < In(8)
            THEN [blocked |-> FALSE, status |-> "warning"]
            ELSE [blocked |-> TRUE, status |-> "fail"]
  ELSE IF AngleLt(obstructionAngle, 10) /\ obstructionHeight < In(4)
       THEN [blocked |-> FALSE, status |-> "acceptable"]
       ELSE IF AngleLt(obstructionAngle, 20) /\ obstructionHeight < In(6)
            THEN [blocked |-> FALSE, status |-> "warning"]
            ELSE [blocked |-> TRUE, status |-> "fail"]

\* The tier tables of checkSightline for a clearance below 4 in.
SightlineTier(maskingConfig, obstructionHeight, obstructionAngle) ==
  IF maskingConfig = "16:9-no-masking"
  THEN IF obstructionHeight <= 500 /\ AngleLt(obstructionAngle, 5)
       THEN [blocked |-> FALSE, status |-> "acceptable"]
       ELSE IF obstructionHeight <= In(2) /\ AngleLt(obstructionAngle, 10)
            THEN [blocked |-> TRUE, status |-> "warning"]
            ELSE [blocked |-> TRUE, status |-> "fail"]
  ELSE IF maskingConfig = "motorized"
  THEN IF AngleLt(obstructionAngle, 20) /\ obstructionHeight < In(6)
       THEN [blocked |-> FALSE, status |-> "acceptable"]
       ELSE IF AngleLt(obstructionAngle, 30) /\ obstructionHeight < In(8)
            THEN [blocked |-> TRUE, status |-> "warning"]
            ELSE [blocked |-> TRUE, status |-> "fail"]
  ELSE IF AngleLt(obstructionAngle, 10) /\ obstructionHeight < In(4)
       THEN [blocked |-> FALSE, status |-> "acceptable"]
       ELSE IF AngleLt(obstructionAngle, 20) /\ obstructionHeight < In(6)
            THEN [blocked |-> TRUE, status |-> "warning"]
            ELSE [blocked |-> TRUE, status |-> "fail"]

checkSightline(frontRow, backRow, viewingDistanceFeet, maskingConfig) ==
  LET frontRowHeadTop == frontRow.earHeight + frontRow.riserHeight + In(4)
      backRowEyeLevel == backRow.earHeight + backRow.riserHeight
      clearance == backRowEyeLevel - frontRowHeadTop
      obstructionHeight == Abs(clearance)
      viewingDistanceInches == viewingDistanceFeet * 12
      obstructionAngle == Angle(obstructionHeight, viewingDistanceInches)
      tier == SightlineTier(maskingConfig, obstructionHeight, obstructionAngle)
  IN  IF clearance >= In(4)
      THEN [blocked |-> FALSE, clearance |-> clearance, status |-> "optimal",
            obstructionAngle |-> Null]
      ELSE [blocked |-> tier.blocked, clearance |-> clearance, status |-> tier.status,
            obstructionAngle |-> Some(obstructionAngle)]

\* ---------------------------------------------- calculations.ts: analyzeRow
getVVAStatus(angle) ==
  IF AngleLe(angle, 150) THEN [pass |-> TRUE, status |-> "optimal"]
  ELSE IF AngleLe(angle, 180) THEN [pass |-> TRUE, status |-> "marginal"]
  ELSE [pass |-> FALSE, status |-> "warning"]

\* A note is its kind and the figures it prints (0 where it prints none or
\* prints an arctangent): a is |clearance| in tenths of an inch
\* (toFixed(1)) or the screen width in inches (toFixed(0)), b is the HVA
\* limit or the room width in inches.
Note(kind, a, b) == [kind |-> kind, a |-> a, b |-> b]

\* Number.prototype.toFixed(0) and toFixed(1) of a value >= 0 in thousandths
ToFixed0(x) == (x + 500) \div 1000

ToFixed1(x) == (x + 50) \div 100

\* hvaLimit of analyzeRow, in degrees
HvaLimit(contentStandard) == IF contentStandard = "HDR" THEN 40 ELSE 45

OverallStatusMutant(sightlineStatus, vvaStatus, hvaPass, vva, hva, hvaLimit) ==
  IF vvaStatus = "warning" \/ ~hvaPass THEN "warning"
  ELSE IF sightlineStatus = "fail" THEN "fail"
  ELSE IF sightlineStatus = "warning" THEN "warning"
  ELSE IF sightlineStatus = "acceptable" \/ vvaStatus = "marginal" THEN "acceptable"
  ELSE IF AngleLe(vva.toTop, 120) /\ AngleLe(vva.toBottom, 120)
          /\ AngleLe(hva, (hvaLimit - 5) * 10)
  THEN "optimal"
  ELSE "acceptable"

\* "Determine overall status using consultant logic"
OverallStatus(sightlineStatus, vvaStatus, hvaPass, vva, hva, hvaLimit) ==
  IF sightlineStatus = "fail" THEN "fail"
  ELSE IF vvaStatus = "warning" \/ ~hvaPass THEN "warning"
  ELSE IF sightlineStatus = "warning" THEN "warning"
  ELSE IF sightlineStatus = "acceptable" \/ vvaStatus = "marginal" THEN "acceptable"
  ELSE IF AngleLe(vva.toTop, 120) /\ AngleLe(vva.toBottom, 120)
          /\ AngleLe(hva, (hvaLimit - 5) * 10)
  THEN "optimal"
  ELSE "acceptable"

\* The notes without the branch for a sightline warning.
RowNotesMutant(vvaStatus, vva, hvaPass, hvaLimit, sightlineStatus, sightlineClearance, obstructionAngle) ==
  (IF vvaStatus = "warning"
   THEN (IF ~AngleLe(vva.toTop, 180) THEN <<Note("vvaTopExceeds", 0, 0)>> ELSE <<>>)
        \o (IF ~AngleLe(vva.toBottom, 180) THEN <<Note("vvaBottomExceeds", 0, 0)>> ELSE <<>>)
   ELSE IF vvaStatus = "marginal"
   THEN (IF ~AngleLe(vva.toTop, 150) THEN <<Note("vvaTopMarginal", 0, 0)>> ELSE <<>>)
        \o (IF ~AngleLe(vva.toBottom, 150) THEN <<Note("vvaBottomMarginal", 0, 0)>> ELSE <<>>)
   ELSE <<>>)
  \o (IF ~hvaPass THEN <<Note("hvaExceeds", 0, hvaLimit)>> ELSE <<>>)
  \o (IF sightlineStatus = "fail"
      THEN <<Note("sightlineObstructed", ToFixed1(Abs(sightlineClearance[1])), 0)>>
      ELSE IF sightlineStatus = "acceptable" /\ obstructionAngle # Null
      THEN <<Note("sightlineMinimal", ToFixed1(Abs(sightlineClearance[1])), 0)>>
      ELSE <<>>)

\* The notes of analyzeRow, in the order they are pushed.
RowNotes(vvaStatus, vva, hvaPass, hvaLimit, sightlineStatus, sightlineClearance, obstructionAngle) ==
  (IF vvaStatus = "warning"
   THEN (IF ~AngleLe(vva.toTop, 180) THEN <<Note("vvaTopExceeds", 0, 0)>> ELSE <<>>)
        \o (IF ~AngleLe(vva.toBottom, 180) THEN <<Note("vvaBottomExceeds", 0, 0)>> ELSE <<>>)
   ELSE IF vvaStatus = "marginal"
   THEN (IF ~AngleLe(vva.toTop, 150) THEN <<Note("vvaTopMarginal", 0, 0)>> ELSE <<>>)
        \o (IF ~AngleLe(vva.toBottom, 150) THEN <<Note("vvaBottomMarginal", 0, 0)>> ELSE <<>>)
   ELSE <<>>)
  \o (IF ~hvaPass THEN <<Note("hvaExceeds", 0, hvaLimit)>> ELSE <<>>)
  \o (IF sightlineStatus = "fail"
      THEN <<Note("sightlineObstructed", ToFixed1(Abs(sightlineClearance[1])), 0)>>
      ELSE IF sightlineStatus = "warning"
      THEN <<Note("sightlineMinor", ToFixed1(Abs(sightlineClearance[1])), 0)>>
      ELSE IF sightlineStatus = "acceptable" /\ obstructionAngle # Null
      THEN <<Note("sightlineMinimal", ToFixed1(Abs(sightlineClearance[1])), 0)>>
      ELSE <<>>)

\* prevRow is Null or Some(row).
analyzeRow(row, prevRow, cfg) ==
  LET screenDims == getScreenDimensions(cfg.screen.size, cfg.screen.aspectRatio)
      vva == calculateVerticalViewingAngle(screenDims.height, cfg.screen.bottomEdgeHeight,
                                           row.earHeight + row.riserHeight, row.distFromScreen)
      hva == calculateHorizontalViewingAngle(screenDims.width, row.distFromScreen)
      vvaTop == getVVAStatus(vva.toTop)
      vvaBottom == getVVAStatus(vva.toBottom)
      vvaPass == vvaTop.pass /\ vvaBottom.pass
      vvaStatus == IF vvaTop.status = "warning" \/ vvaBottom.status = "warning"
                   THEN "warning"
                   ELSE IF vvaTop.status = "marginal" \/ vvaBottom.status = "marginal"
                        THEN "marginal"
                        ELSE "optimal"
      hvaLimit == HvaLimit(cfg.contentStandard)
      hvaPass == AngleLe(hva, hvaLimit * 10)
      sightline == IF prevRow # Null
                   THEN checkSightline(prevRow[1], row, row.distFromScreen,
                                       cfg.screen.maskingConfig)
                   ELSE [blocked |-> FALSE, clearance |-> 0, status |-> "optimal",
                         obstructionAngle |-> Null]
      sightlineClearance == IF prevRow # Null THEN Some(sightline.clearance) ELSE Null
      sightlineStatus == sightline.status
      obstructionAngle == sightline.obstructionAngle
  IN  [rowId |-> row.id,
       distFromScreen |-> row.distFromScreen,
       vvaPass |-> vvaPass,
       hvaPass |-> hvaPass,
       sightlineBlocked |-> (sightlineStatus = "fail"),
       sightlineClearance |-> sightlineClearance,
       overallStatus |-> OverallStatus(sightlineStatus, vvaStatus, hvaPass, vva, hva, hvaLimit),
       notes |-> RowNotes(vvaStatus, vva, hvaPass, hvaLimit, sightlineStatus,
                          sightlineClearance, obstructionAngle)]

\* ------------------------------------------ calculations.ts: analyzeProject
\* minMargin of checkScreenFitsRoom
minMargin == In(6)

checkScreenFitsRoom(screenDiagonal, aspectRatio, roomWidthFeet) ==
  LET screenWidthInches == getScreenDimensions(screenDiagonal, aspectRatio).width
      roomWidthInches == In(roomWidthFeet * 12)
  IN  [fits |-> screenWidthInches <= roomWidthInches - minMargin,
       screenWidthInches |-> screenWidthInches,
       roomWidthInches |-> roomWidthInches,
       marginInches |-> roomWidthInches - screenWidthInches]

\* Array.prototype.sort is stable: rows of equal distance keep their input
\* order.  InsertRow puts r behind every row that is not farther than r.
RECURSIVE InsertRow(_, _)
InsertRow(r, sorted) ==
  IF sorted = <<>> THEN <<r>>
  ELSE IF sorted[Len(sorted)].distFromScreen <= r.distFromScreen
       THEN Append(sorted, r)
       ELSE Append(InsertRow(r, SubSeq(sorted, 1, Len(sorted) - 1)), sorted[Len(sorted)])

RECURSIVE SortByDistance(_)
SortByDistance(rows) ==
  IF rows = <<>> THEN <<>>
  ELSE InsertRow(rows[Len(rows)], SortByDistance(SubSeq(rows, 1, Len(rows) - 1)))

SortedRowsMutant(rows) == rows

\* [...config.rows].sort((a, b) => a.distFromScreen - b.distFromScreen)
SortedRows(rows) == SortByDistance(rows)

PrevRowMutant(sortedRows, index) ==
  IF index > 1 THEN Some(sortedRows[index - 1]) ELSE Some(sortedRows[index])

\* index > 0 ? sortedRows[index - 1] : null   (index is 1-based in the model)
PrevRow(sortedRows, index) ==
  IF index > 1 THEN Some(sortedRows[index - 1]) ELSE Null

ScreenFitOverrideMutant(row, screenCheck) ==
  [row EXCEPT
     !.overallStatus = "warning",
     !.notes = <<Note("actionRequired", 0, 0),
                 Note("criticalWarning", ToFixed0(screenCheck.screenWidthInches),
                      ToFixed0(screenCheck.roomWidthInches))>> \o @]

\* The override with the two unshift calls in the other order, so that the
\* critical warning ends in front of the action-required note.
ScreenFitOverrideNotesMutant(row, screenCheck) ==
  [row EXCEPT
     !.overallStatus = IF @ # "fail" THEN "warning" ELSE @,
     !.notes = <<Note("criticalWarning", ToFixed0(screenCheck.screenWidthInches),
                      ToFixed0(screenCheck.roomWidthInches)),
                 Note("actionRequired", 0, 0)>> \o @]

\* The body of rowAnalyses.forEach when the screen does not fit: the status
\* is raised to warning unless it is fail, and two notes are unshifted, the
\* critical warning first and the action-required note in front of it.
ScreenFitOverride(row, screenCheck) ==
  [row EXCEPT
     !.overallStatus = IF @ # "fail" THEN "warning" ELSE @,
     !.notes = <<Note("actionRequired", 0, 0),
                 Note("criticalWarning", ToFixed0(screenCheck.screenWidthInches),
                      ToFixed0(screenCheck.roomWidthInches))>> \o @]

\* The warning raised for every wall that is not concrete.
BassLeakageWarningMutant(wallConstruction) == wallConstruction # "concrete"

\* const bassLeakageWarning = config.wallConstruction === "drywall"
BassLeakageWarning(wallConstruction) == wallConstruction = "drywall"

\* rowAnalyses.filter(r => r.overallStatus === status).length
CountStatus(rowAnalyses, status) ==
  Cardinality({i \in 1..Len(rowAnalyses) : rowAnalyses[i].overallStatus = status})

\* The scoring with the deductions for a failed row and for bass leakage
\* exchanged.
OverallScoreLeakageMutant(fits, failCount, warningCount, bassLeakageWarning, optimalCount) ==
  LET adjusted == IF ~fits THEN 0
                  ELSE 100 - failCount * 2 - warningCount * 8
                           - (IF bassLeakageWarning THEN 25 ELSE 0) + optimalCount * 2
  IN  Min(100, Max(0, adjusted))

OverallScoreMutant(fits, failCount, warningCount, bassLeakageWarning, optimalCount) ==
  IF ~fits THEN 0
  ELSE Min(100, Max(0, 100 - failCount * 30 - warningCount * 10
                         - (IF bassLeakageWarning THEN 5 ELSE 0) + optimalCount * 2))

\* "Consultant-grade scoring"
OverallScore(fits, failCount, warningCount, bassLeakageWarning, optimalCount) ==
  LET adjusted == IF ~fits THEN 0
                  ELSE 100 - failCount * 25 - warningCount * 8
                           - (IF bassLeakageWarning THEN 2 ELSE 0) + optimalCount * 2
  IN  Min(100, Max(0, adjusted))

CertificationMutant(fits, failCount, warningCount, overallScore) ==
  IF ~fits \/ failCount > 0 THEN "Requires Revision"
  ELSE IF warningCount > 0 /\ overallScore < 80 THEN "Acceptable"
  ELSE "CEDIA Compliant"

Certification(fits, failCount, warningCount, overallScore) ==
  IF ~fits \/ failCount > 0 THEN "Requires Revision"
  ELSE IF warningCount > 0 \/ overallScore < 80 THEN "Acceptable"
  ELSE "CEDIA Compliant"

analyzeProject(cfg) ==
  LET sortedRows == SortedRows(cfg.rows)
      screenCheck == checkScreenFitsRoom(cfg.screen.size, cfg.screen.aspectRatio,
                                         cfg.room.width)
      analysed == [index \in 1..Len(sortedRows) |->
                     analyzeRow(sortedRows[index], PrevRow(sortedRows, index), cfg)]
      rowAnalyses == IF ~screenCheck.fits
                     THEN [index \in 1..Len(analysed) |->
                             ScreenFitOverride(analysed[index], screenCheck)]
                     ELSE analysed
      roomModes == calculateRoomModes(Ft(cfg.room.length), Ft(cfg.room.width),
                                      Ft(cfg.room.height), cfg.wallConstruction)
      rt60Analysis == calculateRT60(cfg.room.length, cfg.room.width, cfg.room.height,
                                    cfg.wallConstruction)
      bassLeakageWarning == BassLeakageWarning(cfg.wallConstruction)
      optimalCount == CountStatus(rowAnalyses, "optimal")
      failCount == CountStatus(rowAnalyses, "fail")
      warningCount == CountStatus(rowAnalyses, "warning")
      overallScore == OverallScore(screenCheck.fits, failCount, warningCount,
                                   bassLeakageWarning, optimalCount)
  IN  [kind |-> "result",
       rows |-> rowAnalyses,
       roomModes |-> roomModes,
       bassLeakageWarning |-> bassLeakageWarning,
       wallDampingFactor |-> WALL_DAMPING_FACTORS(cfg.wallConstruction),
       overallScore |-> overallScore,
       certification |-> Certification(screenCheck.fits, failCount, warningCount,
                                       overallScore),
       rt60Analysis |-> rt60Analysis,
       treatmentPrescriptions |-> TreatmentPrescriptionsOf(roomModes)]

\* ------------------------------------- what the call leaves of its input
\* The arrays analyzeProject touches, by reference: rows is config.rows
\* and copy is the array [...config.rows] allocates.  Array.prototype.sort
\* sorts the array it is called on in place.
SortInPlace(heap, ref) == [heap EXCEPT ![ref] = SortedRows(@)]

\* The call sorting config.rows itself.
HeapAfterAnalysisMutant(cfg) == SortInPlace([rows |-> cfg.rows, copy |-> cfg.rows], "rows")

\* const sortedRows = [...config.rows].sort(...): the sort is called on
\* the copy.  Nothing else of the call writes to an object reachable from
\* config: analyzeRow reads its rows, and the screen-fit branch writes to
\* the RowAnalysis objects analyzeRow returned.
HeapAfterAnalysis(cfg) == SortInPlace([rows |-> cfg.rows, copy |-> cfg.rows], "copy")

\* The configuration object as the call leaves it.
ConfigAfter(cfg) == [cfg EXCEPT !.rows = HeapAfterAnalysis(cfg).rows]

\* ----------------------------------------------------------- the inputs
\* Seats a caller may supply: the two default rows of the page (11 ft and
\* 15 ft, ear at 42 in, riser 0 and 10 in), a front seat at 5 ft and a seat
\* at 15 ft on the floor.
SeatingChoices ==
  { [distFromScreen |-> 5,  earHeight |-> In(42), riserHeight |-> 0],
    [distFromScreen |-> 11, earHeight |-> In(42), riserHeight |-> 0],
    [distFromScreen |-> 15, earHeight |-> In(42), riserHeight |-> 0],
    [distFromScreen |-> 15, earHeight |-> In(42), riserHeight |-> In(10)] }

\* Row lists of 0..MaxRows seats in any order; the id of a row is its
\* position in the list, so ids are unique (ProjectConfig invariant).
RowLists ==
  UNION { { [i \in 1..n |-> [id |-> i,
                             distFromScreen |-> f[i].distFromScreen,
                             earHeight |-> f[i].earHeight,
                             riserHeight |-> f[i].riserHeight]]
            : f \in [1..n -> SeatingChoices] }
          : n \in 0..MaxRows }

\* The default room is 20 x 14 x 9 ft; an 8 ft wide room is too narrow
\* for the default 120 in screen.
RoomWidths == {8, 14}

Configs ==
  [room : [length : {20}, width : RoomWidths, height : {9}],
   screen : [size : {120}, aspectRatio : {"16:9"}, bottomEdgeHeight : {In(24)},
             maskingConfig : MaskingConfigs],
   rows : RowLists,
   wallConstruction : {"drywall", "hybrid"},
   contentStandard : ContentStandards]

NoResult == [kind |-> "none"]

NoArgs == [kind |-> "none"]

\* ------------------------------------------------------ the state machine
Init ==
  /\ config \in Configs
  /\ result = NoResult
  /\ args = NoArgs
  /\ ret = NoResult
  /\ pc = "ready"

\* const analysis = analyzeProject(config)
Analyze ==
  /\ pc = "ready"
  /\ result' = analyzeProject(config)
  /\ config' = ConfigAfter(config)
  /\ pc' = "done"
  /\ UNCHANGED <<args, ret>>

Next == Analyze

Spec == Init /\ [][Next]_vars

\* ------------------------------------------- the engine on other rooms
\* The page's two default rows or none, in rooms from 8 x 8 x 2 ft to a
\* 22 ft cube with every wall construction: a 2 ft dimension has its only
\* audible mode at 281 Hz, a 22 ft one has all three orders below 80 Hz,
\* an 8 ft width is too narrow for the 120 in screen.
defaultRows ==
  <<[id |-> 1, distFromScreen |-> 11, earHeight |-> In(42), riserHeight |-> 0],
    [id |-> 2, distFromScreen |-> 15, earHeight |-> In(42), riserHeight |-> In(10)]>>

ConfigsAcoustics ==
  [room : [length : {8, 20, 22}, width : {8, 14, 22}, height : {2, 9, 22}],
   screen : [size : {120}, aspectRatio : {"16:9"}, bottomEdgeHeight : {In(24)},
             maskingConfig : MaskingConfigs],
   rows : {<<>>, defaultRows},
   wallConstruction : WallConstructions,
   contentStandard : ContentStandards]

InitAcoustics ==
  /\ config \in ConfigsAcoustics
  /\ result = NoResult
  /\ args = NoArgs
  /\ ret = NoResult
  /\ pc = "ready"

SpecAcoustics == InitAcoustics /\ [][Next]_vars

\* ------------------------------ pages/Index.tsx: validating analyzeProject
\* The file carries a second analyzeProject (lines 365-443) that validates
\* its configuration and rates it.  Its argument is a ProjectConfig, or
\* nothing at all (kind "missing": analyzeProject(null)).  For a value of
\* type ProjectConfig the guards !config.room, !config.screen,
\* !Array.isArray(config.rows) and !row are false.
\* A thrown Error is the record [kind |-> "error", message |-> ...].
Throw(message) == [kind |-> "error", message |-> message]

\* `Row ${index + 1} has invalid dimensions`, index + 1 kept as a number
RowError(position) == [kind |-> "error", message |-> "Row has invalid dimensions",
                       row |-> position]

\* A JavaScript number as validateDistance sees it: a finite value, here
\* in tenths of a foot, or NaN, +Infinity or -Infinity.
Finite(v) == [kind |-> "finite", value |-> v]

NonFinite == {[kind |-> k, value |-> 0] : k \in {"NaN", "+Infinity", "-Infinity"}}

\* distance <= 0: false for NaN and +Infinity, true for -Infinity
LeZero(distance) ==
  \/ distance.kind = "-Infinity"
  \/ distance.kind = "finite" /\ distance.value <= 0

isFinite(distance) == distance.kind = "finite"

\* validateDistance with its two checks in the other order.
validateDistanceMutant(distance) ==
  IF ~isFinite(distance) THEN Throw("Distance must be a valid number")
  ELSE IF LeZero(distance) THEN Throw("Distance must be greater than 0")
  ELSE [kind |-> "number", number |-> distance]

validateDistance(distance) ==
  IF LeZero(distance) THEN Throw("Distance must be greater than 0")
  ELSE IF ~isFinite(distance) THEN Throw("Distance must be a valid number")
  ELSE [kind |-> "number", number |-> distance]

\* complianceMap[standard] || 0.75, in hundredths
getContentStandardCompliance(standard) ==
  CASE standard = "HDR"      -> 95
    [] standard = "4K"       -> 90
    [] standard = "Standard" -> 75
    [] OTHER                 -> 75

\* The recommendations with the width note given from three rows on.
generateRecommendationsMutant(rating, cfg) ==
  LET recommendations ==
        (IF rating.num < 70 * rating.den
         THEN <<"Consider improving room acoustics with treatment materials",
                "Evaluate wall construction improvements">>
         ELSE <<>>)
        \o (IF cfg.room.height < 8
            THEN <<"Room height is below optimal - may impact acoustics">>
            ELSE <<>>)
        \o (IF Len(cfg.rows) >= 3 /\ cfg.room.width < 12
            THEN <<"Room width may be tight for multiple seating rows">>
            ELSE <<>>)
  IN  IF Len(recommendations) = 0
      THEN <<"Configuration meets recommended standards">>
      ELSE recommendations

\* rating is the unrounded acousticRating as the fraction num / den.
generateRecommendations(rating, cfg) ==
  LET recommendations ==
        (IF rating.num < 70 * rating.den
         THEN <<"Consider improving room acoustics with treatment materials",
                "Evaluate wall construction improvements">>
         ELSE <<>>)
        \o (IF cfg.room.height < 8
            THEN <<"Room height is below optimal - may impact acoustics">>
            ELSE <<>>)
        \o (IF Len(cfg.rows) > 3 /\ cfg.room.width < 12
            THEN <<"Room width may be tight for multiple seating rows">>
            ELSE <<>>)
  IN  IF Len(recommendations) = 0
      THEN <<"Configuration meets recommended standards">>
      ELSE recommendations

\* The positions of the rows that config.rows.forEach rejects.
InvalidRowPositions(rows) ==
  {k \in 1..Len(rows) : rows[k].distFromScreen < 0 \/ rows[k].earHeight < 0}

FirstInvalidRowMutant(rows) ==
  CHOOSE k \in InvalidRowPositions(rows) : \A j \in InvalidRowPositions(rows) : j <= k

\* forEach throws at the first row it rejects.
FirstInvalidRow(rows) ==
  CHOOSE k \in InvalidRowPositions(rows) : \A j \in InvalidRowPositions(rows) : k <= j

\* The rating without Math.min(100, ...).
RateProjectMutant(cfg) ==
  LET n == Len(cfg.rows)
      roomVolume == cfg.room.length * cfg.room.width * cfg.room.height
      standardCompliance == getContentStandardCompliance(cfg.contentStandard)
      raw == 10000 * n + 20 * cfg.room.length * cfg.room.width + roomVolume * n
               + 20 * standardCompliance * n
      acousticRating == [num |-> Max(0, raw), den |-> 200 * n]
  IN  [kind |-> "result",
       roomVolume |-> roomVolume,
       areaPerPerson |-> [num |-> cfg.room.length * cfg.room.width, den |-> n],
       acousticRating |-> (100 * acousticRating.num + 100 * n) \div acousticRating.den,
       standardCompliance |-> standardCompliance,
       recommendations |-> generateRecommendations(acousticRating, cfg),
       isCompliant |-> acousticRating.num >= 70 * acousticRating.den]

\* The computation behind the validation (lines 401-436).  With
\* n = rows.length the rating 50 + (areaPerPerson / 100) * 10
\* + (roomVolume / 1000) * 5 + standardCompliance * 10 is the fraction
\* (10000 n + 20 L W + V n + 20 c n) / (200 n), c in hundredths.
RateProject(cfg) ==
  LET n == Len(cfg.rows)
      roomVolume == cfg.room.length * cfg.room.width * cfg.room.height
      standardCompliance == getContentStandardCompliance(cfg.contentStandard)
      raw == 10000 * n + 20 * cfg.room.length * cfg.room.width + roomVolume * n
               + 20 * standardCompliance * n
      acousticRating == [num |-> Min(100 * 200 * n, Max(0, raw)), den |-> 200 * n]
  IN  [kind |-> "result",
       roomVolume |-> roomVolume,
       areaPerPerson |-> [num |-> cfg.room.length * cfg.room.width, den |-> n],
       \* Math.round(acousticRating * 100) / 100, in hundredths
       acousticRating |-> (100 * acousticRating.num + 100 * n) \div acousticRating.den,
       standardCompliance |-> standardCompliance,
       recommendations |-> generateRecommendations(acousticRating, cfg),
       isCompliant |-> acousticRating.num >= 70 * acousticRating.den]

analyzeProject_Index(cfg) ==
  IF cfg.kind = "missing" THEN Throw("Project configuration is required")
  ELSE IF cfg.room.length <= 0 \/ cfg.room.width <= 0 \/ cfg.room.height <= 0
  THEN Throw("Room dimensions must be positive numbers")
  ELSE IF cfg.screen.size <= 0 THEN Throw("Screen size must be positive")
  ELSE IF Len(cfg.rows) = 0 THEN Throw("At least one seating row is required")
  ELSE IF InvalidRowPositions(cfg.rows) # {} THEN RowError(FirstInvalidRow(cfg.rows))
  ELSE RateProject(cfg)

\* Arguments of the validating analyzeProject: no configuration, or a
\* configuration whose fields are valid or break one check each.  A room
\* of 7 x 21 x 7 ft with two rows and the Standard content standard is
\* rated 50 + 7.35 + 5.145 + 7.5 = 69.995.
MaxRowsIndex == 4

RowChoicesIndex ==
  { [distFromScreen |-> 11, earHeight |-> 42, riserHeight |-> 0],
    [distFromScreen |-> -5, earHeight |-> 42, riserHeight |-> 0],
    [distFromScreen |-> 11, earHeight |-> -1, riserHeight |-> 0] }

RowListsIndex ==
  UNION { { [i \in 1..n |-> [id |-> i,
                             distFromScreen |-> f[i].distFromScreen,
                             earHeight |-> f[i].earHeight,
                             riserHeight |-> f[i].riserHeight]]
            : f \in [1..n -> RowChoicesIndex] }
          : n \in 0..MaxRowsIndex }

ArgsIndex ==
  {[kind |-> "missing"]}
  \cup [kind : {"config"},
        room : [length : {0, 7, 20}, width : {-5, 8, 14, 21}, height : {0, 7, 9}],
        screen : [size : {0, 120}],
        rows : RowListsIndex,
        contentStandard : {"HDR", "4K", "Standard", "SDR"}]

InitIndex ==
  /\ args \in ArgsIndex
  /\ ret = NoResult
  /\ config = NoArgs
  /\ result = NoResult
  /\ pc = "ready"

\* expect(() => analyzeProject(config)) ...
AnalyzeIndex ==
  /\ pc = "ready"
  /\ ret' = analyzeProject_Index(args)
  /\ pc' = "done"
  /\ UNCHANGED <<config, result, args>>

NextIndex == AnalyzeIndex

SpecIndex == InitIndex /\ [][NextIndex]_vars

\* ------------------------------------------------ pages/Index.tsx: the page
\* The page of lines 45-333 renders the result of the validating
\* analyzeProject (analysis.acousticRating, analysis.isCompliant).  Its
\* form state is config; result is the analysis of the last render, null
\* (NoAnalysis) when analyzeProject threw; pc is what the render returned:
\* "main", the header with the inputs and the results, or "fallback", the
\* lone "Unable to load analysis / Please refresh the page".
NoAnalysis == [kind |-> "null"]

\* try { return analyzeProject(config) } catch (error) { ...; return null }
AnalysisOf(cfg) ==
  LET outcome == analyzeProject_Index(cfg)
  IN  IF outcome.kind = "error" THEN NoAnalysis ELSE outcome

\* if (!analysis) return <Unable to load analysis>; return <main page>
RenderOf(analysis) == IF analysis = NoAnalysis THEN "fallback" ELSE "main"

\* Number(e.target.value) of what a user types into a number input: 0 for
\* a cleared field or a typed 0, a first digit, a whole value.
RoomEdits == {0, 2, 9, 14, 20, 25}

ScreenEdits == {0, 100, 120}

\* One render after a state setter: the analysis is recomputed from the
\* new form state and the view follows it.
Rerender(cfg) ==
  /\ config' = cfg
  /\ result' = AnalysisOf(cfg)
  /\ pc' = RenderOf(AnalysisOf(cfg))
  /\ UNCHANGED <<args, ret>>

InitPage ==
  /\ config = [kind |-> "config",
               room |-> [length |-> 20, width |-> 14, height |-> 9],
               screen |-> [size |-> 120],
               rows |-> defaultRows,
               contentStandard |-> "HDR"]
  /\ result = AnalysisOf(config)
  /\ pc = RenderOf(result)
  /\ args = NoArgs
  /\ ret = NoResult

\* The inputs exist in the main view only.
SetRoomLength ==
  /\ pc = "main"
  /\ \E v \in RoomEdits : Rerender([config EXCEPT !.room.length = v])

SetRoomWidth ==
  /\ pc = "main"
  /\ \E v \in RoomEdits : Rerender([config EXCEPT !.room.width = v])

SetRoomHeight ==
  /\ pc = "main"
  /\ \E v \in RoomEdits : Rerender([config EXCEPT !.room.height = v])

SetScreenSize ==
  /\ pc = "main"
  /\ \E v \in ScreenEdits : Rerender([config EXCEPT !.screen.size = v])

NextPage == SetRoomLength \/ SetRoomWidth \/ SetRoomHeight \/ SetScreenSize

SpecPage == InitPage /\ [][NextPage]_vars

\* ------------------------------------------- components/RowManager.tsx
\* The row list is config.rows; args is the operation that produced it.
\* Math.max(...rows.map(r => r.id)) of a non-empty list
RECURSIVE MaxId(_)
MaxId(rows) ==
  IF rows = <<>> THEN 0
  ELSE Max(rows[1].id, MaxId(SubSeq(rows, 2, Len(rows))))

\* addRow of RowManager: the new row sits 4 ft behind the last one, on a
\* riser 8 in higher.
addRow(rows) ==
  LET newId == IF Len(rows) > 0 THEN MaxId(rows) + 1 ELSE 1
      lastRow == rows[Len(rows)]
  IN  Append(rows,
             IF Len(rows) > 0
             THEN [id |-> newId,
                   distFromScreen |-> lastRow.distFromScreen + 4,
                   earHeight |-> lastRow.earHeight,
                   riserHeight |-> lastRow.riserHeight + In(8)]
             ELSE [id |-> newId, distFromScreen |-> 10, earHeight |-> In(44),
                   riserHeight |-> 0])

\* handleAddRow of RowManagerComponent: a fixed new row.
handleAddRow(rows) ==
  Append(rows, [id |-> MaxId(rows) + 1, distFromScreen |-> 15, earHeight |-> In(42),
                riserHeight |-> 0])

\* removeRow without its guard.
removeRowMutant(rows, id) == SelectSeq(rows, LAMBDA r : r.id # id)

\* removeRow and handleDeleteRow
removeRow(rows, id) ==
  IF Len(rows) > 1 THEN SelectSeq(rows, LAMBDA r : r.id # id) ELSE rows

\* updateRow(id, field, value) and handleUpdateRow(id, {field: value})
updateRow(rows, id, field, value) ==
  [k \in 1..Len(rows) |->
     IF rows[k].id = id THEN [rows[k] EXCEPT ![field] = value] ELSE rows[k]]

\* Ids are handed out up to MaxRowId.
MaxRowId == 3

\* What a user types into the three inputs of a row.
RowFieldEdits ==
  { <<"distFromScreen", 15>>, <<"earHeight", In(44)>>, <<"riserHeight", In(8)>> }

RowIds(rows) == {rows[k].id : k \in 1..Len(rows)}

InitRows ==
  /\ config \in {[kind |-> "rowManager", rows |-> rows] :
                   rows \in {defaultRows, SubSeq(defaultRows, 1, 1)}}
  /\ args = [kind |-> "mount"]
  /\ result = NoResult
  /\ ret = NoResult
  /\ pc = "rows"

AddRow ==
  /\ pc = "rows"
  /\ MaxId(config.rows) < MaxRowId
  /\ config' = [config EXCEPT !.rows = addRow(@)]
  /\ args' = [kind |-> "addRow"]
  /\ UNCHANGED <<result, ret, pc>>

HandleAddRow ==
  /\ pc = "rows"
  /\ MaxId(config.rows) < MaxRowId
  /\ config' = [config EXCEPT !.rows = handleAddRow(@)]
  /\ args' = [kind |-> "addRow"]
  /\ UNCHANGED <<result, ret, pc>>

RemoveRow ==
  /\ pc = "rows"
  /\ \E id \in RowIds(config.rows) :
       /\ config' = [config EXCEPT !.rows = removeRow(@, id)]
       /\ args' = [kind |-> "removeRow", id |-> id]
  /\ UNCHANGED <<result, ret, pc>>

UpdateRow ==
  /\ pc = "rows"
  /\ \E id \in RowIds(config.rows), edit \in RowFieldEdits :
       /\ config' = [config EXCEPT !.rows = updateRow(@, id, edit[1], edit[2])]
       /\ args' = [kind |-> "updateRow", id |-> id, field |-> edit[1], value |-> edit[2]]
  /\ UNCHANGED <<result, ret, pc>>

NextRows == AddRow \/ HandleAddRow \/ RemoveRow \/ UpdateRow

SpecRows == InitRows /\ [][NextRows]_vars

\* ------------------------------------------- validateDistance on its own
\* Finite distances from -MaxDistanceTenths to MaxDistanceTenths tenths of
\* a foot, and the three values that are not finite.
MaxDistanceTenths == 60

DistanceArgs ==
  [kind : {"validateDistance"},
   distance : {Finite(v) : v \in (-MaxDistanceTenths)..MaxDistanceTenths} \cup NonFinite]

InitDistance ==
  /\ args \in DistanceArgs
  /\ ret = NoResult
  /\ config = NoArgs
  /\ result = NoResult
  /\ pc = "ready"

\* expect(validateDistance(d)) ... / expect(() => validateDistance(d)).toThrow(...)
CallValidateDistance ==
  /\ pc = "ready"
  /\ args.kind = "validateDistance"
  /\ ret' = validateDistance(args.distance)
  /\ pc' = "done"
  /\ UNCHANGED <<config, result, args>>

NextDistance == CallValidateDistance

SpecDistance == InitDistance /\ [][NextDistance]_vars

\* ------------------------------------------- checkSightline on its own
\* The back row's riser runs over 0 .. MaxRiserHalfInches / 2 in, in steps
\* of half an inch, so that the clearance crosses 4 in, 0 and the 0.5 in and
\* 2 in thresholds of the tier tables in both directions.
MaxRiserHalfInches == 24

SightlineArgs ==
  [kind : {"checkSightline"},
   frontRow : [id : {1}, distFromScreen : {5}, earHeight : {In(42)},
               riserHeight : {0, In(6)}],
   backRow : [id : {2}, distFromScreen : {5}, earHeight : {In(42), In(44)},
              riserHeight : {500 * k : k \in 0..MaxRiserHalfInches}],
   viewingDistanceFeet : {5, 11, 15, 19},
   maskingConfig : MaskingConfigs]

InitSightline ==
  /\ args \in SightlineArgs
  /\ ret = NoResult
  /\ config = NoArgs
  /\ result = NoResult
  /\ pc = "ready"

CallCheckSightline ==
  /\ pc = "ready"
  /\ ret' = checkSightline(args.frontRow, args.backRow, args.viewingDistanceFeet,
                           args.maskingConfig)
  /\ pc' = "done"
  /\ UNCHANGED <<config, result, args>>

NextSightline == CallCheckSightline

SpecSightline == InitSightline /\ [][NextSightline]_vars

\* -------------------------------------------- calculateRoomModes on its own
\* Room dimensions in hundredths of a foot: 1 ft and 2 ft put orders above
\* 300 Hz, 3.75 ft puts its second order on 300 Hz exactly, 7.03 ft and
\* 14.07 ft put a first order just above 80 Hz and just below 40 Hz, the
\* others are ordinary rooms.
RoomDimensions == {100, 200, 375, 703, 900, 1400, 1407, 2000}

ModesArgs ==
  [kind : {"calculateRoomModes"},
   roomLength : RoomDimensions, roomWidth : RoomDimensions, roomHeight : RoomDimensions,
   wallConstruction : WallConstructions]

InitModes ==
  /\ args \in ModesArgs
  /\ ret = NoResult
  /\ config = NoArgs
  /\ result = NoResult
  /\ pc = "ready"

CallCalculateRoomModes ==
  /\ pc = "ready"
  /\ args.kind = "calculateRoomModes"
  /\ ret' = [kind |-> "roomModes",
             modes |-> calculateRoomModes(args.roomLength, args.roomWidth,
                                          args.roomHeight, args.wallConstruction)]
  /\ pc' = "done"
  /\ UNCHANGED <<config, result, args>>

NextModes == CallCalculateRoomModes

SpecModes == InitModes /\ [][NextModes]_vars

\* --------------------------------------------------------------------------
\* The room-mode and treatment steps of analyzeProject on rooms with
\* fractional dimensions (hundredths of a foot): 1125 / (2 * 14.05) is
\* 40.04 Hz and 1125 / (2 * 14.07) is 39.98 Hz, both reported as 40.0.
TreatmentDimensions == {375, 703, 900, 1405, 1407, 2000}

TreatmentArgs ==
  [kind : {"treatmentPrescriptions"},
   roomLength : TreatmentDimensions, roomWidth : TreatmentDimensions,
   roomHeight : TreatmentDimensions,
   wallConstruction : WallConstructions]

InitTreatments ==
  /\ args \in TreatmentArgs
  /\ ret = NoResult
  /\ config = NoArgs
  /\ result = NoResult
  /\ pc = "ready"

BuildTreatmentPrescriptions ==
  /\ pc = "ready"
  /\ args.kind = "treatmentPrescriptions"
  /\ LET roomModes == calculateRoomModes(args.roomLength, args.roomWidth,
                                         args.roomHeight, args.wallConstruction)
     IN  ret' = [kind |-> "treatmentPrescriptions",
                 roomModes |-> roomModes,
                 treatmentPrescriptions |-> TreatmentPrescriptionsOf(roomModes)]
  /\ pc' = "done"
  /\ UNCHANGED <<config, result, args>>

NextTreatments == BuildTreatmentPrescriptions

SpecTreatments == InitTreatments /\ [][NextTreatments]_vars

\* ------------------------------------------------- calculateRT60 on its own
\* Room dimensions in whole feet, from a 4 ft closet to a 60 ft hall; none
\* of the rooms puts a value exactly half way between two roundings.
RT60Lengths == {4, 8, 13, 20, 60}

RT60Widths == {4, 8, 9, 14, 60}

RT60Heights == {7, 8, 10, 15, 16, 60}

RT60Args ==
  [kind : {"calculateRT60"},
   roomLength : RT60Lengths, roomWidth : RT60Widths, roomHeight : RT60Heights,
   wallConstruction : WallConstructions]

InitRT60 ==
  /\ args \in RT60Args
  /\ ret = NoResult
  /\ config = NoArgs
  /\ result = NoResult
  /\ pc = "ready"

CallCalculateRT60 ==
  /\ pc = "ready"
  /\ args.kind = "calculateRT60"
  /\ ret' = [kind |-> "rt60Analysis",
             analysis |-> calculateRT60(args.roomLength, args.roomWidth,
                                        args.roomHeight, args.wallConstruction)]
  /\ pc' = "done"
  /\ UNCHANGED <<config, result, args>>

NextRT60 == CallCalculateRT60

SpecRT60 == InitRT60 /\ [][NextRT60]_vars

\* ============================================================== the claims
Done == pc = "done" /\ result.kind = "result"

\* The screen of the configuration fits its room.
Fits == checkScreenFitsRoom(config.screen.size, config.screen.aspectRatio,
                            config.room.width).fits

\* Number of rows of the result whose final overallStatus is st.
Rows(st) == Cardinality({i \in 1..Len(result.rows) : result.rows[i].overallStatus = st})

\* The input row with the given id, the input row the i-th result row
\* stands for, and the input row of the result row just before it.
InputRow(id) == CHOOSE r \in {config.rows[k] : k \in 1..Len(config.rows)} : r.id = id

RowOf(i) == InputRow(result.rows[i].rowId)

PrevOf(i) == IF i > 1 THEN Some(RowOf(i - 1)) ELSE Null

EyeLevel(row) == row.earHeight + row.riserHeight

\* The tier the sightline evaluator gives the i-th result row (i > 1).
EvaluatorOf(i) == checkSightline(RowOf(i - 1), RowOf(i), RowOf(i).distFromScreen,
                                 config.screen.maskingConfig)

\* C1: overallScore is an integer in [0,100]; when the screen fits it is
\* min(100, max(0, 100 - 25*fail - 8*warning - 2*[bassLeakageWarning]
\* + 2*optimal)), counted over the final overallStatus of the rows.
C1_ScoreFormula ==
  Done =>
    /\ result.overallScore \in 0..100
    /\ Fits =>
         LET raw == 100 - 25 * Rows("fail") - 8 * Rows("warning")
                        - 2 * (IF result.bassLeakageWarning THEN 1 ELSE 0)
                        + 2 * Rows("optimal")
         IN  result.overallScore = (IF raw > 100 THEN 100 ELSE IF raw < 0 THEN 0 ELSE raw)

\* A fitting screen, drywall, and rows of every penalised or rewarded tier.
C1_Witness ==
  /\ Done /\ Fits /\ result.bassLeakageWarning
  /\ Rows("fail") >= 1 /\ Rows("warning") >= 1 /\ Rows("optimal") >= 1
  /\ result.overallScore = 100 - 25 * Rows("fail") - 8 * Rows("warning") - 2
                               + 2 * Rows("optimal")

\* C2: certification is Requires Revision exactly when the screen does not
\* fit or a row failed; otherwise Acceptable exactly when a row warned or
\* the score is below 80; otherwise CEDIA Compliant.
C2_Certification ==
  Done =>
    /\ result.certification \in {"Requires Revision", "Acceptable", "CEDIA Compliant"}
    /\ result.certification = "Requires Revision" <=> (~Fits \/ Rows("fail") > 0)
    /\ (Fits /\ Rows("fail") = 0) =>
         (result.certification = "Acceptable"
            <=> (Rows("warning") > 0 \/ result.overallScore < 80))

\* A fitting screen, no failed row, one warning and a score of 80 or more.
C2_Witness ==
  /\ Done /\ Fits /\ Rows("fail") = 0 /\ Rows("warning") = 1
  /\ result.overallScore >= 80
  /\ result.certification = "Acceptable"

\* C3: when the screen does not fit, every row is warning or fail, a row
\* whose own analysis was fail stays fail, the score is 0 and the
\* certification is Requires Revision.
C3_ScreenDoesNotFit ==
  (Done /\ ~Fits) =>
    /\ \A i \in 1..Len(result.rows) :
         /\ result.rows[i].overallStatus \in {"warning", "fail"}
         /\ analyzeRow(RowOf(i), PrevOf(i), config).overallStatus = "fail"
              => result.rows[i].overallStatus = "fail"
    /\ result.overallScore = 0
    /\ result.certification = "Requires Revision"

\* The screen does not fit, one row failed on its own and stays fail, and
\* one row that was optimal on its own is raised to warning.
C3_Witness ==
  /\ Done /\ ~Fits
  /\ \E i, j \in 1..Len(result.rows) :
       /\ analyzeRow(RowOf(i), PrevOf(i), config).overallStatus = "fail"
       /\ result.rows[i].overallStatus = "fail"
       /\ analyzeRow(RowOf(j), PrevOf(j), config).overallStatus = "optimal"
       /\ result.rows[j].overallStatus = "warning"

\* C4: one RowAnalysis per input row, the same ids each with its own
\* distance, in non-decreasing order of distFromScreen.
C4_RowsPreservedAndSorted ==
  Done =>
    /\ Len(result.rows) = Len(config.rows)
    /\ \A k \in 1..Len(config.rows) :
         Cardinality({i \in 1..Len(result.rows) :
                        /\ result.rows[i].rowId = config.rows[k].id
                        /\ result.rows[i].distFromScreen = config.rows[k].distFromScreen}) = 1
    /\ \A i \in 1..Len(result.rows) - 1 :
         result.rows[i].distFromScreen <= result.rows[i + 1].distFromScreen

\* Three or more input rows given farthest first.
C4_Witness ==
  /\ Done /\ Len(config.rows) >= 3
  /\ \A k \in 1..Len(config.rows) - 1 :
       config.rows[k].distFromScreen > config.rows[k + 1].distFromScreen
  /\ result.rows[1].rowId = Len(config.rows)

\* C5: the first result row is a row of minimum distance with
\* sightlineClearance null and sightlineBlocked false; every other row has
\* the clearance against the row just before it in distance order.
C5_FirstRowNoSightline ==
  (Done /\ Len(result.rows) > 0) =>
    /\ \A k \in 1..Len(config.rows) :
         result.rows[1].distFromScreen <= config.rows[k].distFromScreen
    /\ result.rows[1].sightlineClearance = Null
    /\ result.rows[1].sightlineBlocked = FALSE
    /\ \A i \in 2..Len(result.rows) :
         result.rows[i].sightlineClearance =
           Some(EyeLevel(RowOf(i)) - (EyeLevel(RowOf(i - 1)) + In(4)))

\* Two rows at least, the second with a negative clearance.
C5_Witness ==
  /\ Done /\ Len(result.rows) >= 2
  /\ result.rows[1].sightlineClearance = Null
  /\ result.rows[2].sightlineClearance # Null
  /\ result.rows[2].sightlineClearance[1] < 0

\* C6: a configuration with zero rows raises "At least one seating row is
\* required" and yields no AnalysisResult.
C6_EmptyRowsRaise ==
  (pc = "done" /\ config.rows = <<>>) =>
    /\ result.kind = "error"
    /\ result.message = "At least one seating row is required"

\* C8: for every row after the first, sightlineBlocked is true exactly when
\* the sightline evaluator puts the row in the warning or the fail tier.
C8_BlockedIffWarningOrFail ==
  Done =>
    \A i \in 2..Len(result.rows) :
      result.rows[i].sightlineBlocked <=> (EvaluatorOf(i).status \in {"warning", "fail"})

\* C10: overallStatus of analyzeRow by first match: sightline fail -> fail;
\* VVA warning or half HVA above the limit -> warning; sightline warning ->
\* warning; sightline acceptable or VVA marginal -> acceptable; both
\* vertical sub-angles <= 12 and half HVA <= limit - 5 -> optimal; else
\* acceptable; the limit is 40 for HDR and 45 otherwise.
C10_OverallStatusPrecedence ==
  (Done /\ Fits) =>
    \A i \in 1..Len(result.rows) :
      LET row == RowOf(i)
          dims == getScreenDimensions(config.screen.size, config.screen.aspectRatio)
          vva == calculateVerticalViewingAngle(dims.height, config.screen.bottomEdgeHeight,
                                               EyeLevel(row), row.distFromScreen)
          hva == calculateHorizontalViewingAngle(dims.width, row.distFromScreen)
          limit == IF config.contentStandard = "HDR" THEN 400 ELSE 450
          sightline == IF i > 1 THEN EvaluatorOf(i).status ELSE "optimal"
          vvaWarning == ~AngleLe(vva.toTop, 180) \/ ~AngleLe(vva.toBottom, 180)
          vvaMarginal == ~vvaWarning /\ (~AngleLe(vva.toTop, 150) \/ ~AngleLe(vva.toBottom, 150))
          expected ==
            CASE sightline = "fail" -> "fail"
              [] sightline # "fail" /\ (vvaWarning \/ ~AngleLe(hva, limit)) -> "warning"
              [] OTHER ->
                   IF sightline = "warning" THEN "warning"
                   ELSE IF sightline = "acceptable" \/ vvaMarginal THEN "acceptable"
                   ELSE IF AngleLe(vva.toTop, 120) /\ AngleLe(vva.toBottom, 120)
                           /\ AngleLe(hva, limit - 50)
                   THEN "optimal"
                   ELSE "acceptable"
      IN  result.rows[i].overallStatus = expected

\* One result holding a row where the first branch decides against the
\* second (sightline fail under a VVA warning), a row that is warning by
\* its sightline alone, and an optimal row.
C10_Witness ==
  /\ Done /\ Fits
  /\ \E i \in 2..Len(result.rows) :
       /\ EvaluatorOf(i).status = "fail" /\ ~result.rows[i].vvaPass
       /\ result.rows[i].overallStatus = "fail"
  /\ \E i \in 2..Len(result.rows) :
       /\ EvaluatorOf(i).status = "warning" /\ result.rows[i].vvaPass
       /\ result.rows[i].overallStatus = "warning"
  /\ \E i \in 1..Len(result.rows) : result.rows[i].overallStatus = "optimal"

\* C7: the validating analyzeProject raises the error of the first violated
\* check in the order missing configuration, room dimension <= 0, screen
\* size <= 0, empty row list, first row in input order with a negative
\* distance or ear height (named by its 1-based position); the messages are
\* pairwise distinct; it returns a result only when no check is violated.
C7_ValidationOrder ==
  pc = "done" =>
    LET missing == args.kind = "missing"
        badRoom == args.room.length <= 0 \/ args.room.width <= 0 \/ args.room.height <= 0
        badScreen == args.screen.size <= 0
        noRows == args.rows = <<>>
        badRow(k) == args.rows[k].distFromScreen < 0 \/ args.rows[k].earHeight < 0
        anyBadRow == \E k \in 1..Len(args.rows) : badRow(k)
    IN  IF missing THEN ret = Throw("Project configuration is required")
        ELSE IF badRoom THEN ret = Throw("Room dimensions must be positive numbers")
        ELSE IF badScreen THEN ret = Throw("Screen size must be positive")
        ELSE IF noRows THEN ret = Throw("At least one seating row is required")
        ELSE IF anyBadRow
        THEN /\ ret.kind = "error"
             /\ ret.message = "Row has invalid dimensions"
             /\ badRow(ret.row)
             /\ \A j \in 1..(ret.row - 1) : ~badRow(j)
        ELSE ret.kind = "result"

\* Two offending rows behind a valid one, in a configuration whose room and
\* screen are valid: the error names the first of them, row 2.
C7_Witness ==
  /\ pc = "done" /\ args.kind = "config"
  /\ Len(args.rows) >= 3
  /\ args.rows[1].distFromScreen >= 0 /\ args.rows[1].earHeight >= 0
  /\ args.rows[2].earHeight < 0 /\ args.rows[3].distFromScreen < 0
  /\ ret = RowError(2)

\* The clearance of the two rows handed to checkSightline, by the formula
\* (back ear height + back riser) - (front ear height + front riser + 4 in).
ArgsClearance ==
  (args.backRow.earHeight + args.backRow.riserHeight)
    - (args.frontRow.earHeight + args.frontRow.riserHeight + In(4))

ScreenFitNoteKinds == {"actionRequired", "criticalWarning"}

\* C11: when the screen does not fit, each row's notes are the
\* action-required note, then the critical-warning note with the screen
\* width and the room width in whole inches, then the row's own notes in
\* their order; when the screen fits no row carries either note.
C11_ScreenFitNotes ==
  Done =>
    \A i \in 1..Len(result.rows) :
      LET notes == result.rows[i].notes
          own   == analyzeRow(RowOf(i), PrevOf(i), config).notes
      IN  IF Fits
          THEN \A k \in 1..Len(notes) : notes[k].kind \notin ScreenFitNoteKinds
          ELSE /\ Len(notes) = Len(own) + 2
               /\ notes[1] = Note("actionRequired", 0, 0)
               /\ notes[2].kind = "criticalWarning"
               /\ notes[2].a = 105
               /\ notes[2].b = 12 * config.room.width
               /\ SubSeq(notes, 3, Len(notes)) = own
               /\ \A k \in 1..Len(own) : own[k].kind \notin ScreenFitNoteKinds

\* A 120 in screen in an 8 ft room: a row with two diagnostic notes of its
\* own carries four notes, the two screen-fit notes in front of them.
C11_Witness ==
  /\ Done /\ ~Fits
  /\ \E i \in 1..Len(result.rows) :
       /\ Len(analyzeRow(RowOf(i), PrevOf(i), config).notes) >= 2
       /\ Len(result.rows[i].notes) = Len(analyzeRow(RowOf(i), PrevOf(i), config).notes) + 2
       /\ result.rows[i].notes[1].kind = "actionRequired"
       /\ result.rows[i].notes[2] = Note("criticalWarning", 105, 96)

\* ------------------------------------------------ claims on the room modes
ModesDone == pc = "done" /\ ret.kind = "roomModes"

Axes == {"Length", "Width", "Height"}

\* The room dimension of an axis, in hundredths of a foot.
DimensionOf(axis) ==
  CASE axis = "Length" -> args.roomLength
    [] axis = "Width"  -> args.roomWidth
    [] axis = "Height" -> args.roomHeight

\* The pairs (axis, n) with n * 1125 / (2 * dimension) <= 300.
AudiblePairs ==
  {p \in Axes \X (1..3) : p[2] * 1125 * 100 <= 300 * 2 * DimensionOf(p[1])}

\* C12: calculateRoomModes returns exactly one mode for each pair
\* (dimension, n in 1..3) whose frequency n*1125/(2*dimension) is at most
\* 300 Hz and no other mode, so at most 9; each is axial, carries that
\* frequency to the nearest 0.1 Hz, and the list is sorted in
\* non-decreasing order of frequency with no frequency above 300 Hz.
C12_RoomModes ==
  ModesDone =>
    LET modes == ret.modes
    IN  /\ Len(modes) = Cardinality(AudiblePairs)
        /\ Len(modes) <= 9
        /\ \A p \in AudiblePairs :
             \E k \in 1..Len(modes) : modes[k].axis = [name |-> p[1], order |-> p[2]]
        /\ \A k \in 1..Len(modes) :
             /\ modes[k].type = "axial"
             /\ <<modes[k].axis.name, modes[k].axis.order>> \in AudiblePairs
             /\ Abs(2 * DimensionOf(modes[k].axis.name) * modes[k].frequency
                      - 10 * modes[k].axis.order * 1125 * 100)
                  <= DimensionOf(modes[k].axis.name)
             /\ modes[k].frequency <= 3000
        /\ \A k \in 1..(Len(modes) - 1) : modes[k].frequency <= modes[k + 1].frequency

\* A room with a dimension of 3.75 ft: its third order is dropped, its
\* second order is kept at exactly 300 Hz, and two modes share a frequency.
C12_Witness ==
  /\ ModesDone
  /\ Len(ret.modes) \in 1..8
  /\ \E k \in 1..Len(ret.modes) : ret.modes[k].frequency = 3000
  /\ \E k \in 1..(Len(ret.modes) - 1) : ret.modes[k].frequency = ret.modes[k + 1].frequency

\* The treatment type the prescription table gives a frequency num / den.
TypeFor(num, den) ==
  IF num < 40 * den THEN "diaphragmatic"
  ELSE IF num <= 80 * den THEN "hybrid-bass-trap"
  ELSE "broadband-porous"

\* C13: the treatment attached to every returned mode is the one
\* prescribed for the frequency the mode reports: diaphragmatic below
\* 40 Hz, hybrid-bass-trap from 40 to 80 Hz, broadband-porous above 80 Hz.
C13_TreatmentOfReportedFrequency ==
  ModesDone =>
    \A k \in 1..Len(ret.modes) :
      ret.modes[k].treatment.type = TypeFor(ret.modes[k].frequency, 10)

\* C13, amended: the treatment attached to every returned mode is the one
\* prescribed for the frequency n*1125/(2*dimension) of its axis and order
\* before it is rounded to 0.1 Hz; it differs from the one of the
\* reported frequency only where that is reported as 40.0 or 80.0 Hz.
C13_TreatmentOfExactFrequency ==
  ModesDone =>
    \A k \in 1..Len(ret.modes) :
      LET mode == ret.modes[k]
      IN  /\ mode.treatment.type
               = TypeFor(mode.axis.order * 1125 * 100, 2 * DimensionOf(mode.axis.name))
          /\ mode.treatment.type # TypeFor(mode.frequency, 10)
               => mode.frequency \in {400, 800}

\* A 14.07 ft dimension: its first order, 39.98 Hz, is reported as 40.0 Hz
\* and carries the diaphragmatic absorber; a 7.03 ft dimension: 80.01 Hz
\* is reported as 80.0 Hz and carries the broadband absorber.
C13_Witness ==
  /\ ModesDone
  /\ \E k \in 1..Len(ret.modes) :
       ret.modes[k].frequency = 400 /\ ret.modes[k].treatment.type = "diaphragmatic"
  /\ \E k \in 1..Len(ret.modes) :
       ret.modes[k].frequency = 800 /\ ret.modes[k].treatment.type = "broadband-porous"

\* ------------------------------------------------------- claims on the RT60
RT60Done == pc = "done" /\ ret.kind = "rt60Analysis"

\* Volume in cubic feet, total surface in square feet and the absorption
\* of the untreated room in thousandths of a sabin, from the arguments.
RoomVolume == args.roomLength * args.roomWidth * args.roomHeight

RoomSurface ==
  2 * (args.roomLength * args.roomWidth + args.roomLength * args.roomHeight
         + args.roomWidth * args.roomHeight)

CurrentSabins ==
  2 * args.roomHeight * (args.roomLength + args.roomWidth)
      * 10 * WALL_ABSORPTION_COEFFICIENTS(args.wallConstruction)
    + args.roomLength * args.roomWidth * (100 + 50 + 75)

\* The status of an RT60 of num / den hundredths of a second.
StatusFor(num, den) ==
  IF num <= 55 * den THEN "optimal"
  ELSE IF num <= 75 * den THEN "acceptable"
  ELSE "needs-treatment"

\* C16: the status agrees with the reported untreatedRT60: optimal exactly
\* when it is at most 0.55 s, acceptable exactly when it is above 0.55 s
\* and at most 0.75 s, needs-treatment otherwise.
C16_StatusOfReportedRT60 ==
  RT60Done => ret.analysis.status = StatusFor(ret.analysis.untreatedRT60, 1)

\* C16, amended: the status is the one of 0.049 * volume / absorption
\* before it is rounded to 0.01 s, against the 0.45 s target; it differs
\* from the status of the reported value only where that is reported as
\* 0.55 s or 0.75 s.
C16_StatusOfExactRT60 ==
  RT60Done =>
    /\ ret.analysis.targetRT60 = 45
    /\ ret.analysis.status = StatusFor(49 * 100 * RoomVolume, CurrentSabins)
    /\ ret.analysis.status # StatusFor(ret.analysis.untreatedRT60, 1)
         => ret.analysis.untreatedRT60 \in {55, 75}

\* An 8 x 9 x 7 ft room with mlv-drywall walls: 0.5517 s is reported as
\* 0.55 s with status acceptable.
C16_Witness ==
  /\ RT60Done
  /\ ret.analysis.untreatedRT60 = 55
  /\ ret.analysis.status = "acceptable"

BassModes == {k \in 1..Len(result.roomModes) : result.roomModes[k].frequency <= 2000}

\* C14: treatmentPrescriptions never holds two entries of the same
\* treatment type, holds only prescriptions of room modes with frequency
\* <= 200 Hz, and for each type present it holds the prescription of the
\* first such mode of that type in the sorted mode list; every type of
\* such a mode is present.
C14_TreatmentPrescriptions ==
  Done =>
    LET list == result.treatmentPrescriptions
        modes == result.roomModes
    IN  /\ \A i, j \in 1..Len(list) : list[i].type = list[j].type => i = j
        /\ \A i \in 1..Len(list) :
             \E k \in BassModes :
               /\ list[i] = modes[k].treatment
               /\ \A j \in BassModes : modes[j].treatment.type = list[i].type => k <= j
        /\ \A k \in BassModes : \E i \in 1..Len(list) : list[i].type = modes[k].treatment.type

\* A room with a 2 ft dimension and the others 22 ft: its only
\* broadband-porous mode is at 281 Hz, and the list holds the two other
\* types only, each standing for several modes.
C14_Witness ==
  /\ Done
  /\ Len(result.treatmentPrescriptions) = 2
  /\ Cardinality(BassModes) > 2
  /\ \E k \in 1..Len(result.roomModes) :
       /\ k \notin BassModes
       /\ \A i \in 1..Len(result.treatmentPrescriptions) :
            result.treatmentPrescriptions[i].type # result.roomModes[k].treatment.type

\* C15: bassLeakageWarning is true exactly when the wall construction is
\* drywall, the class with the lowest damping factor, whatever the room,
\* the screen fit, the rows, the content standard, the RT60 status and
\* the leakage flags of the modes.
C15_BassLeakageWarning ==
  Done =>
    /\ result.bassLeakageWarning <=> config.wallConstruction = "drywall"
    /\ result.bassLeakageWarning <=>
         \A w \in WallConstructions \ {config.wallConstruction} :
           result.wallDampingFactor < WALL_DAMPING_FACTORS(w)

\* Drywall in a room whose screen does not fit, with a mode that is not
\* flagged as leaking: the warning is raised all the same.
C15_Witness ==
  /\ Done /\ ~Fits
  /\ config.wallConstruction = "drywall"
  /\ result.bassLeakageWarning
  /\ \E k \in 1..Len(result.roomModes) : ~result.roomModes[k].isBassLeakage

\* C18: analyzeProject leaves its input configuration unchanged: after the
\* call config.rows holds the same rows with the same field values in the
\* same order, and room, screen, wallConstruction and contentStandard are
\* untouched, also when the screen does not fit and the statuses and
\* notes of the rows are rewritten.
C18_ConfigUnchanged == [][config' = config]_vars

\* After a call on rows that were not in order of distance, in a room the
\* screen does not fit: the result's rows are sorted and carry the
\* screen-fit notes, the rows of the configuration are still out of order.
C18_Witness ==
  /\ Done /\ ~Fits
  /\ Len(config.rows) >= 2
  /\ config.rows # SortedRows(config.rows)
  /\ \A i \in 1..Len(result.rows) :
       /\ result.rows[i].rowId = SortedRows(config.rows)[i].id
       /\ result.rows[i].notes[1].kind = "actionRequired"

\* ------------------------------------------------ claims on validateDistance
DistanceDone == pc = "done" /\ args.kind = "validateDistance"

Returns(d) == ret = [kind |-> "number", number |-> d]

Throws(message) == ret.kind = "error" /\ ret.message = message

\* C19: validateDistance(d) returns d unchanged for every finite d > 0 and
\* throws otherwise: "Distance must be a valid number" for every d that is
\* not finite (NaN, +Infinity and -Infinity) and "Distance must be greater
\* than 0" for every finite d <= 0.
C19_NonFiniteIsNotValid ==
  DistanceDone =>
    LET d == args.distance
    IN  IF d.kind # "finite" THEN Throws("Distance must be a valid number")
        ELSE IF d.value <= 0 THEN Throws("Distance must be greater than 0")
        ELSE Returns(d)

\* C19, amended: validateDistance(d) returns d unchanged for every finite
\* d > 0 and throws otherwise: "Distance must be a valid number" for NaN
\* and +Infinity, "Distance must be greater than 0" for every finite
\* d <= 0 and for -Infinity.
C19_ValidateDistance ==
  DistanceDone =>
    LET d == args.distance
    IN  IF d.kind \in {"NaN", "+Infinity"} THEN Throws("Distance must be a valid number")
        ELSE IF d.kind = "-Infinity" \/ d.value <= 0
             THEN Throws("Distance must be greater than 0")
        ELSE Returns(d)

\* validateDistance(-Infinity) has thrown "Distance must be greater than 0".
C19_Witness ==
  /\ DistanceDone
  /\ args.distance.kind = "-Infinity"
  /\ Throws("Distance must be greater than 0")

\* C20: for every configuration that passes validation, whenever the
\* acousticRating reported in the result is at least 70 the result's
\* isCompliant is true.
C20_ReportedRatingImpliesCompliant ==
  (pc = "done" /\ args.kind = "config" /\ ret.kind = "result"
     /\ ret.acousticRating >= 7000)
    => ret.isCompliant

\* ------------------------------------------ claims on the rated result
Rated == pc = "done" /\ args.kind = "config" /\ ret.kind = "result"

RatingTimes200Rows ==
  LET n == Len(args.rows)
      c == IF args.contentStandard = "HDR" THEN 95
           ELSE IF args.contentStandard = "4K" THEN 90 ELSE 75
  IN  10000 * n + 20 * args.room.length * args.room.width
        + n * args.room.length * args.room.width * args.room.height + 20 * c * n

RatingBelow70 == RatingTimes200Rows < 70 * 200 * Len(args.rows)

HeightBelow8 == args.room.height < 8

TightWidth == Len(args.rows) > 3 /\ args.room.width < 12

MeetsStandards == "Configuration meets recommended standards"

\* C22: for every configuration that passes validation the recommendations
\* list is non-empty; it contains "Configuration meets recommended
\* standards" exactly when the rating is not below 70, the room height is
\* not below 8 and it is not the case that there are more than 3 rows in
\* a room less than 12 wide, and then that message is its only entry.
C22_Recommendations ==
  Rated =>
    LET recommendations == ret.recommendations
        none == ~RatingBelow70 /\ ~HeightBelow8 /\ ~TightWidth
    IN  /\ Len(recommendations) >= 1
        /\ (\E k \in 1..Len(recommendations) : recommendations[k] = MeetsStandards) <=> none
        /\ none => recommendations = <<MeetsStandards>>
        /\ (\E k \in 1..Len(recommendations) :
              recommendations[k] = "Room width may be tight for multiple seating rows")
             <=> TightWidth
        /\ (\E k \in 1..Len(recommendations) :
              recommendations[k] = "Room height is below optimal - may impact acoustics")
             <=> HeightBelow8
        /\ (\E k \in 1..Len(recommendations) :
              recommendations[k] = "Evaluate wall construction improvements")
             <=> RatingBelow70

\* Three rows in an 8 ft wide, 9 ft high room rated 70 or more: none of
\* the three conditions holds and the list is the single message.
C22_Witness ==
  /\ Rated
  /\ Len(args.rows) = 3 /\ args.room.width = 8 /\ args.room.height = 9
  /\ ~RatingBelow70
  /\ ret.recommendations = <<MeetsStandards>>

\* ------------------------------------------------------ claims on the page
\* The form state does not pass the validation of analyzeProject.
InvalidForm ==
  \/ config.room.length <= 0 \/ config.room.width <= 0 \/ config.room.height <= 0
  \/ config.screen.size <= 0

\* C23: after the user sets the room length to 0, or makes any other edit
\* that produces an invalid configuration, the main page with the
\* AV SAFEGUARD header and the configuration inputs is still displayed,
\* so that the user can go on editing.
C23_MainPageStaysDisplayed ==
  (pc \in {"main", "fallback"} /\ InvalidForm) => pc = "main"

\* ----------------------------------------------- claims on the row manager
RowFields == {"id", "distFromScreen", "earHeight", "riserHeight"}

\* At least one row, and no id twice.
RowListWellFormed ==
  /\ Len(config.rows) >= 1
  /\ \A j, k \in 1..Len(config.rows) : config.rows[j].id = config.rows[k].id => j = k

\* A remove-row on the only row changes nothing; an update-row changes
\* the addressed field of the addressed row and nothing else.
RowOperationFrame ==
  /\ (args'.kind = "removeRow" /\ Len(config.rows) = 1) => config'.rows = config.rows
  /\ args'.kind = "updateRow" =>
       /\ Len(config'.rows) = Len(config.rows)
       /\ \A k \in 1..Len(config.rows), f \in RowFields :
            config'.rows[k][f] =
              IF config.rows[k].id = args'.id /\ f = args'.field
              THEN args'.value
              ELSE config.rows[k][f]

\* C24: from a non-empty row list with unique ids, after any sequence of
\* add-row, remove-row and update-row operations the list is still
\* non-empty with unique ids; remove-row on the only remaining row
\* changes nothing, and update-row changes only the addressed field of
\* the addressed row.
C24_RowManager == [](pc = "rows" => RowListWellFormed) /\ [][RowOperationFrame]_vars

\* The delete handler has run on the only row, which is still there,
\* after that row had been edited.
C24_Witness ==
  /\ pc = "rows"
  /\ args.kind = "removeRow"
  /\ Len(config.rows) = 1
  /\ config.rows[1].id = args.id
  /\ config.rows[1].earHeight = In(44)
  /\ config.rows[1].id = 3

\* The order of the sightline statuses, best first.
StatusRank(status) ==
  CASE status = "optimal" -> 0
    [] status = "acceptable" -> 1
    [] status = "warning" -> 2
    [] status = "fail" -> 3

\* The status checkSightline returns for the call at hand with the back
\* row's riser set to the given height.
StatusWithRiser(riserHeight) ==
  checkSightline(args.frontRow, [args.backRow EXCEPT !.riserHeight = riserHeight],
                 args.viewingDistanceFeet, args.maskingConfig).status

\* C25: for a fixed front row, viewing distance and masking
\* configuration, raising the back row's eye level (ear height plus
\* riser) never makes the status returned by checkSightline worse in the
\* order optimal < acceptable < warning < fail.
C25_RaisingEyeLevelNeverWorse ==
  (pc = "done" /\ args.kind = "checkSightline") =>
    \A k \in 0..MaxRiserHalfInches :
      500 * k >= args.backRow.riserHeight =>
        StatusRank(StatusWithRiser(500 * k)) <= StatusRank(ret.status)

\* The masking configurations from the most lenient to the strictest.
MaskingStrictness(maskingConfig) ==
  CASE maskingConfig = "motorized" -> 0
    [] maskingConfig = "fixed-240" -> 1
    [] maskingConfig = "16:9-no-masking" -> 2

\* The status checkSightline returns for the call at hand under another
\* masking configuration.
StatusWithMasking(maskingConfig) ==
  checkSightline(args.frontRow, args.backRow, args.viewingDistanceFeet,
                 maskingConfig).status

\* C26: for the same front row, back row and viewing distance the
\* sightline status under motorized masking is never worse than under
\* fixed-ratio masking, which is never worse than under no masking.
C26_MaskingOrder ==
  (pc = "done" /\ args.kind = "checkSightline") =>
    \A maskingConfig \in MaskingConfigs :
      MaskingStrictness(maskingConfig) >= MaskingStrictness(args.maskingConfig) =>
        StatusRank(ret.status) <= StatusRank(StatusWithMasking(maskingConfig))

\* A call under motorized masking returned acceptable where fixed-ratio
\* masking gives warning and no masking gives fail.
C26_Witness ==
  /\ pc = "done"
  /\ args.kind = "checkSightline"
  /\ args.maskingConfig = "motorized"
  /\ ret.status = "acceptable"
  /\ StatusWithMasking("fixed-240") = "warning"
  /\ StatusWithMasking("16:9-no-masking") = "fail"

\* C27: the closest row of a project never has overallStatus fail: a
\* failed row is never the first of the result and always has a
\* sightline clearance, that of the check against its predecessor;
\* hence a project with a single row whose screen fits the room is never
\* certified "Requires Revision".
C27_ClosestRowNeverFails ==
  Done =>
    /\ \A i \in 1..Len(result.rows) :
         result.rows[i].overallStatus = "fail" =>
           i > 1 /\ result.rows[i].sightlineClearance # Null
    /\ (Len(result.rows) = 1 /\ Fits) => result.certification # "Requires Revision"

\* A single row 5 ft from a fitting screen: its viewing angles put it at
\* warning, the worst a closest row can get, and the project is
\* "Acceptable".
C27_Witness ==
  /\ Done
  /\ Fits
  /\ Len(result.rows) = 1
  /\ result.rows[1].overallStatus = "warning"
  /\ result.certification = "Acceptable"

\* C28: when the screen fits the room and no row has overallStatus fail
\* or warning, overallScore is at least 98 and the project is "CEDIA
\* Compliant"; with a fitting screen and no failed row the certification
\* is "Acceptable" exactly when some row has overallStatus warning.
C28_ScoreNeverDecides ==
  (Done /\ Fits /\ Rows("fail") = 0) =>
    /\ Rows("warning") = 0 =>
         /\ result.overallScore >= 98
         /\ result.certification = "CEDIA Compliant"
    /\ result.certification = "Acceptable" <=> Rows("warning") > 0

\* A drywall project (2 points off) whose rows are all acceptable scores
\* exactly 98 and is "CEDIA Compliant".
C28_Witness ==
  /\ Done
  /\ Fits
  /\ Len(result.rows) >= 2
  /\ Rows("acceptable") = Len(result.rows)
  /\ config.wallConstruction = "drywall"
  /\ result.overallScore = 98
  /\ result.certification = "CEDIA Compliant"

\* C29: in every result of analyzeProject each row with overallStatus
\* warning or fail carries at least one diagnostic note, and when the
\* screen fits each row with overallStatus optimal carries no note.
C29_NotesFollowStatus ==
  Done =>
    \A i \in 1..Len(result.rows) :
      /\ result.rows[i].overallStatus \in {"warning", "fail"} =>
           Len(result.rows[i].notes) >= 1
      /\ (Fits /\ result.rows[i].overallStatus = "optimal") =>
           result.rows[i].notes = <<>>

\* With a fitting screen: an optimal row without notes, a row at warning
\* with the single note of its sightline concern, and a failed row.
C29_Witness ==
  /\ Done
  /\ Fits
  /\ \E i \in 1..Len(result.rows) :
       result.rows[i].overallStatus = "optimal" /\ result.rows[i].notes = <<>>
  /\ \E i \in 1..Len(result.rows) :
       /\ result.rows[i].overallStatus = "warning"
       /\ Len(result.rows[i].notes) = 1
       /\ result.rows[i].notes[1].kind = "sightlineMinor"
  /\ \E i \in 1..Len(result.rows) :
       result.rows[i].overallStatus = "fail" /\ Len(result.rows[i].notes) >= 1

TreatmentsDone == pc = "done" /\ ret.kind = "treatmentPrescriptions"

\* The treatment types in the order of their frequency bands.
TreatmentTypeRank(type) ==
  CASE type = "diaphragmatic" -> 0
    [] type = "hybrid-bass-trap" -> 1
    [] type = "broadband-porous" -> 2

\* C30: the frequency fields of the entries of treatmentPrescriptions
\* are non-decreasing, so the types appear in the order diaphragmatic,
\* hybrid-bass-trap, broadband-porous, each at most once and at most
\* three entries in all.
C30_TreatmentsInFrequencyOrder ==
  TreatmentsDone =>
    LET t == ret.treatmentPrescriptions
    IN  /\ Len(t) <= 3
        /\ \A i, j \in 1..Len(t) :
             i < j =>
               /\ t[i].frequency.num * t[j].frequency.den
                    <= t[j].frequency.num * t[i].frequency.den
               /\ TreatmentTypeRank(t[i].type) < TreatmentTypeRank(t[j].type)

============================================================================
